---- MODULE Spec2Model ----
(***************************************************************************)
(* syspagen: builds a syspage from a preinit script and a user script and  *)
(* writes it into a kernel image (src/syspagen/syspagen.c).                *)
(*                                                                         *)
(* C strings are modelled as tuples of one-character strings, an argument  *)
(* vector as a tuple of such tokens.  The syspage buffer is modelled as a  *)
(* function from host offsets (relative to sysgen_common.buff) to the      *)
(* objects placed there; the header (syspage_t, at offset 0) is kept in    *)
(* the variable syspage.                                                   *)
(***************************************************************************)
EXTENDS Integers, Sequences, FiniteSets, TLC

\* ------------------------------------------------------------- bounds
\* Number of script lines read in one run (both scripts together).
MaxLines == 4

\* List entries visited per block of a list walk.
WalkBlock == 16
\* Number of map lines of the long script.
LongMaps == 257
\* Width of the interval of each map of the long script.
LongMapSpan == 16
\* Maximum syspage size of the long script's configuration.
LongMaxsz == 16384

\* ---------------------------------------------------------- constants
\* sizeof(long long), used as the allocation alignment.
SizeofLongLong == 8
\* sizeof(alias->name)
AliasNameSz == 32
\* SIZE_CMD_ARGV and SIZE_CMD_ARG_LINE
SIZE_CMD_ARGV == 11
SIZE_CMD_ARG_LINE == 181
\* number of values of a uint8_t map id (sysgen_mapNameResolve reads map->id
\* through a uint8_t, and the id arrays of a program are arrays of uint8_t)
Uint8Range == 256
\* sizes of the structures declared in syspage.h (a packed layout of 32-bit
\* fields is taken; no property below depends on the exact values)
SizeofSyspageT == 24
SizeofMapT == 32
SizeofProgT == 36
\* attribute flags declared in syspage.h
mAttrRead == 1
mAttrWrite == 2
mAttrExec == 4
mAttrShareable == 8
mAttrCacheable == 16
mAttrBufferable == 32
\* errno values and exit codes
EINVAL == 22
ENOMEM == 12
EXIT_SUCCESS == 0
EXIT_FAILURE == 1

\* ------------------------------------------------------------ strings
\* ALIGN_ADDR(addr, align)
ALIGN_ADDR(addr, align) ==
    IF align # 0 THEN ((addr + (align - 1)) \div align) * align ELSE addr

Digits == <<"0", "1", "2", "3", "4", "5", "6", "7", "8", "9",
            "a", "b", "c", "d", "e", "f">>
UpperDigits == <<"0", "1", "2", "3", "4", "5", "6", "7", "8", "9",
                 "A", "B", "C", "D", "E", "F">>

\* value of character c as a digit, 99 when it is none
DigitVal(c) ==
    IF \E i \in 1..16 : Digits[i] = c
    THEN (CHOOSE i \in 1..16 : Digits[i] = c) - 1
    ELSE IF \E i \in 1..16 : UpperDigits[i] = c
         THEN (CHOOSE i \in 1..16 : UpperDigits[i] = c) - 1
         ELSE 99

RECURSIVE StrtoulDigits(_, _, _)
\* consume the digits of the given base; [val, end, any]
StrtoulDigits(s, base, acc) ==
    IF s # <<>> /\ DigitVal(Head(s)) < base
    THEN StrtoulDigits(Tail(s), base, [val |-> acc.val * base + DigitVal(Head(s)),
                                       any |-> TRUE])
    ELSE [val |-> acc.val, any |-> acc.any, end |-> s]

\* strtoul(s, &end, 0): the value and the unparsed rest.  Without a digit the
\* value is 0 and end is the whole string.  (The tokens of this model have
\* no sign and stay far below ULONG_MAX.)
Strtoul(s) ==
    LET hex == Len(s) >= 3 /\ s[1] = "0" /\ s[2] \in {"x", "X"}
                /\ DigitVal(s[3]) < 16
        base == IF hex THEN 16 ELSE IF s # <<>> /\ s[1] = "0" THEN 8 ELSE 10
        body == IF hex THEN SubSeq(s, 3, Len(s)) ELSE s
        r == StrtoulDigits(body, base, [val |-> 0, any |-> FALSE])
    IN  IF r.any THEN [val |-> r.val, end |-> r.end]
        ELSE [val |-> 0, end |-> s]

\* strncpy(dst, src, n - 1); dst[n - 1] = '\0'
Strncpy(src, n) ==
    IF Len(src) > n - 1 THEN SubSeq(src, 1, n - 1) ELSE src

\* ---------------------------------------------------------------- state
VARIABLES
    sysgen_common,  \* pkernel, offs, maxsz, syspage (the header), buff, aliases
    pc,             \* position of main: "preinit", "user", "commit", "exit"
    opened,         \* whether the script being parsed has been opened
    nlines,         \* lines read so far (bounded by MaxLines)
    status,         \* exit status of the process, -1 while it runs
    image,          \* the image file: whether written to, bytes asked, bytes written
    hist,           \* the commands run so far: argv and return value
    line,           \* sysgen_parseScript: the line getline returned last, as tokens
    call            \* the latest direct call of a function: name, arguments, results

vars == <<sysgen_common, pc, opened, nlines, status, image, hist, line, call>>

\* no function has been called directly
NoCall == [fn |-> "none"]

\* the image file before sysgen_addSyspage2Img writes to it
Untouched == [touched |-> FALSE, asked |-> 0, written |-> 0]

\* an object-free buffer (calloc)
EmptyBuff == [o \in {} |-> 0]

\* CAST_SYSPTR(type, ptr): the host offset of execution address ptr
CAST_SYSPTR(c, ptr) == ptr - (c.pkernel + c.offs)

\* a faulty variant of sysgen_buffAlloc: the image offset is left out of the address
sysgen_buffAlloc_NoOffs(c, sz) ==
    LET newSz == ALIGN_ADDR(c.syspage.size + sz, SizeofLongLong)
    IN  IF newSz >= c.maxsz
        THEN [ptr |-> 0, c |-> c]
        ELSE [ptr |-> c.syspage.size + c.pkernel,
              c |-> [c EXCEPT !.syspage.size = newSz]]

\* a faulty variant of sysgen_buffAlloc: a size equal to maxsz is let through
sysgen_buffAlloc_UpToMaxsz(c, sz) ==
    LET newSz == ALIGN_ADDR(c.syspage.size + sz, SizeofLongLong)
    IN  IF newSz > c.maxsz
        THEN [ptr |-> 0, c |-> c]
        ELSE [ptr |-> c.syspage.size + c.pkernel + c.offs,
              c |-> [c EXCEPT !.syspage.size = newSz]]

\* sysgen_buffAlloc(sz): [ptr, c], ptr = 0 on failure
sysgen_buffAlloc(c, sz) ==
    LET newSz == ALIGN_ADDR(c.syspage.size + sz, SizeofLongLong)
    IN  IF newSz >= c.maxsz
        THEN [ptr |-> 0, c |-> c]
        ELSE [ptr |-> c.syspage.size + c.pkernel + c.offs,
              c |-> [c EXCEPT !.syspage.size = newSz]]

\* ---------------------------------------------------------------- alias
\* sysgen_aliasFind(name): the first alias of the list (most recently
\* inserted first) whose stored name equals name; 0 stands for NULL
sysgen_aliasFind(c, name) ==
    IF \E i \in 1..Len(c.aliases) : c.aliases[i].name = name
    THEN LET i == CHOOSE i \in 1..Len(c.aliases) :
                    /\ c.aliases[i].name = name
                    /\ \A j \in 1..(i - 1) : c.aliases[j].name # name
         IN  i
    ELSE 0

\* a faulty variant of AliasImgsz: the image size is set without the comparison
AliasImgsz_Always(imgsz, addr, size) == addr + size

\* "Update max image size"
AliasImgsz(imgsz, addr, size) ==
    IF imgsz < addr + size THEN addr + size ELSE imgsz

\* the record cmdAlias inserts
AliasRecord(c, name, addr, size) ==
    [name |-> Strncpy(name, AliasNameSz), addr |-> addr + c.pkernel, size |-> size]

\* sysgen_cmdAlias(argc, argv): [ret, c]
sysgen_cmdAlias(c, argv) ==
    IF Len(argv) # 4 THEN [ret |-> -1, c |-> c]
    ELSE LET a == Strtoul(argv[3])
             s == Strtoul(argv[4])
         IN  IF a.end # <<>> \/ s.end # <<>> THEN [ret |-> -1, c |-> c]
             ELSE [ret |-> 0,
                   c |-> [c EXCEPT
                       !.syspage.hs_imgsz = AliasImgsz(@, a.val, s.val),
                       !.aliases = <<AliasRecord(c, argv[2], a.val, s.val)>> \o @]]

\* ------------------------------------------------------------------ map
\* The do-while loops over a circular list are evaluated in blocks of
\* WalkBlock entries, which keeps the depth of evaluation small on long lists;
\* the entries are visited one by one, in list order, as in the code.  A walk
\* gives up after more blocks than the buffer has objects.
Fuel(c) == Cardinality(DOMAIN c.buff) + 1

RECURSIVE MapOverlapBlock(_, _, _, _, _, _)
\* up to n turns of the loop of sysgen_mapOverlapping, from the map at ptr
MapOverlapBlock(c, ptr, name, start, end, n) ==
    LET map == c.buff[CAST_SYSPTR(c, ptr)]
    IN  IF \/ (map.start < end /\ map.end > start)
           \/ name = c.buff[CAST_SYSPTR(c, map.name)]
        THEN [done |-> TRUE, ret |-> -1, ptr |-> ptr]
        ELSE IF map.next = c.syspage.maps
             THEN [done |-> TRUE, ret |-> 0, ptr |-> ptr]
             ELSE IF n <= 1 THEN [done |-> FALSE, ret |-> 0, ptr |-> map.next]
                  ELSE MapOverlapBlock(c, map.next, name, start, end, n - 1)

RECURSIVE MapOverlapWalk(_, _, _, _, _, _)
MapOverlapWalk(c, ptr, name, start, end, fuel) ==
    LET r == MapOverlapBlock(c, ptr, name, start, end, WalkBlock)
    IN  IF r.done \/ fuel = 0 THEN r.ret
        ELSE MapOverlapWalk(c, r.ptr, name, start, end, fuel - 1)

\* a faulty variant of sysgen_mapOverlapping: only the head of the list is compared
sysgen_mapOverlapping_HeadOnly(c, name, start, end) ==
    IF c.syspage.maps # 0
    THEN MapOverlapBlock(c, c.syspage.maps, name, start, end, 1).ret
    ELSE 0

\* sysgen_mapOverlapping(name, start, end)
sysgen_mapOverlapping(c, name, start, end) ==
    IF c.syspage.maps # 0
    THEN MapOverlapWalk(c, c.syspage.maps, name, start, end, Fuel(c))
    ELSE 0

RECURSIVE MapResolveBlock(_, _, _, _)
\* up to n turns of the loop of sysgen_mapNameResolve, from the map at ptr
MapResolveBlock(c, ptr, name, n) ==
    LET map == c.buff[CAST_SYSPTR(c, ptr)]
    IN  IF name = c.buff[CAST_SYSPTR(c, map.name)]
        THEN [done |-> TRUE, ret |-> 0, id |-> map.id % Uint8Range, ptr |-> ptr]
        ELSE IF map.next = c.syspage.maps
             THEN [done |-> TRUE, ret |-> -1, id |-> 0, ptr |-> ptr]
             ELSE IF n <= 1
                  THEN [done |-> FALSE, ret |-> -1, id |-> 0, ptr |-> map.next]
                  ELSE MapResolveBlock(c, map.next, name, n - 1)

RECURSIVE MapResolveWalk(_, _, _, _)
MapResolveWalk(c, ptr, name, fuel) ==
    LET r == MapResolveBlock(c, ptr, name, WalkBlock)
    IN  IF r.done \/ fuel = 0 THEN [ret |-> r.ret, id |-> r.id]
        ELSE MapResolveWalk(c, r.ptr, name, fuel - 1)

\* sysgen_mapNameResolve(name, &id): [ret, id]
sysgen_mapNameResolve(c, name) ==
    IF c.syspage.maps # 0
    THEN MapResolveWalk(c, c.syspage.maps, name, Fuel(c))
    ELSE [ret |-> -1, id |-> 0]

\* attr |= flag
BitOr(attr, flag) == IF (attr \div flag) % 2 = 1 THEN attr ELSE attr + flag

\* a faulty variant of AttrFlag: the letter r is taken in either case
AttrFlag_AnyCase(ch) ==
    CASE ch \in {"r", "R"} -> mAttrRead
      [] ch = "w" -> mAttrWrite
      [] ch = "x" -> mAttrExec
      [] ch = "s" -> mAttrShareable
      [] ch = "c" -> mAttrCacheable
      [] ch = "b" -> mAttrBufferable
      [] OTHER -> 0

\* the flag of an attribute letter, 0 for any other character
AttrFlag(ch) ==
    CASE ch = "r" -> mAttrRead
      [] ch = "w" -> mAttrWrite
      [] ch = "x" -> mAttrExec
      [] ch = "s" -> mAttrShareable
      [] ch = "c" -> mAttrCacheable
      [] ch = "b" -> mAttrBufferable
      [] OTHER -> 0

RECURSIVE StrAttrLoop(_, _)
StrAttrLoop(str, attr) ==
    IF str = <<>> THEN [ret |-> 0, attr |-> attr]
    ELSE IF AttrFlag(Head(str)) = 0 THEN [ret |-> -1, attr |-> attr]
         ELSE StrAttrLoop(Tail(str), BitOr(attr, AttrFlag(Head(str))))

\* sysgen_strAttr2ui(str, &attr): [ret, attr]
sysgen_strAttr2ui(str) == StrAttrLoop(str, 0)

\* a zeroed syspage_map_t (the buffer comes from calloc)
ZeroMap == [t |-> "map", next |-> 0, prev |-> 0, entries |-> 0, start |-> 0,
            end |-> 0, attr |-> 0, id |-> 0, name |-> 0]

\* a faulty variant of MapLink: headMap->prev is not updated
MapLink_NoHeadPrev(c, b, ptr) ==
    LET o == CAST_SYSPTR(c, ptr)
    IN  IF c.syspage.maps = 0
        THEN [c EXCEPT !.buff = [b EXCEPT ![o].next = ptr, ![o].prev = ptr,
                                          ![o].id = 0],
                       !.syspage.maps = ptr]
        ELSE LET h == CAST_SYSPTR(c, c.syspage.maps)
                 b1 == [b EXCEPT ![o].prev = b[h].prev]
                 b2 == [b1 EXCEPT ![CAST_SYSPTR(c, b1[h].prev)].next = ptr]
                 b3 == [b2 EXCEPT ![o].next = c.syspage.maps]
                 b5 == [b3 EXCEPT ![o].id =
                           (b3[CAST_SYSPTR(c, b3[o].prev)].id + 1) % Uint8Range]
             IN  [c EXCEPT !.buff = b5]

\* the part of sysgen_mapAdd that links the filled map at ptr into the list
\* and gives it its id; b is the buffer with the map's other fields set
MapLink(c, b, ptr) ==
    LET o == CAST_SYSPTR(c, ptr)
    IN  IF c.syspage.maps = 0
        THEN [c EXCEPT !.buff = [b EXCEPT ![o].next = ptr, ![o].prev = ptr,
                                          ![o].id = 0],
                       !.syspage.maps = ptr]
        ELSE LET h == CAST_SYSPTR(c, c.syspage.maps)
                 b1 == [b EXCEPT ![o].prev = b[h].prev]
                 b2 == [b1 EXCEPT ![CAST_SYSPTR(c, b1[h].prev)].next = ptr]
                 b3 == [b2 EXCEPT ![o].next = c.syspage.maps]
                 b4 == [b3 EXCEPT ![h].prev = ptr]
                 b5 == [b4 EXCEPT ![o].id =
                           (b4[CAST_SYSPTR(c, b4[o].prev)].id + 1) % Uint8Range]
             IN  [c EXCEPT !.buff = b5]

\* sysgen_mapAdd(mapName, start, end, attr): [ret, c]
sysgen_mapAdd(c, mapName, start, end, attr) ==
    LET a1 == sysgen_buffAlloc(c, SizeofMapT)
    IN  IF a1.ptr = 0 THEN [ret |-> -1, c |-> c]
        ELSE LET o == CAST_SYSPTR(c, a1.ptr)
                 a2 == sysgen_buffAlloc(a1.c, Len(mapName) + 1)
                 b0 == (o :> [ZeroMap EXCEPT !.name = a2.ptr]) @@ a1.c.buff
             IN  IF a2.ptr = 0
                 THEN [ret |-> -1, c |-> [a1.c EXCEPT !.buff = b0]]
                 ELSE LET b1 == (CAST_SYSPTR(c, a2.ptr) :> mapName) @@ b0
                          b2 == [b1 EXCEPT ![o].entries = 0, ![o].start = start,
                                           ![o].end = end, ![o].attr = attr]
                      IN  [ret |-> 0, c |-> MapLink(a2.c, b2, a1.ptr)]

\* a faulty variant of sysgen_cmdMap: the map is allocated before the list is
\* searched for an overlap
sysgen_cmdMap_AddFirst(c, argv) ==
    IF Len(argv) # 5 THEN [ret |-> -1, c |-> c]
    ELSE LET s == Strtoul(argv[3])
             e == Strtoul(argv[4])
             at == sysgen_strAttr2ui(argv[5])
             a1 == sysgen_buffAlloc(c, SizeofMapT)
         IN  IF s.end # <<>> THEN [ret |-> -1, c |-> c]
             ELSE IF e.end # <<>> THEN [ret |-> -1, c |-> c]
             ELSE IF at.ret < 0 THEN [ret |-> at.ret, c |-> c]
             ELSE IF sysgen_mapOverlapping(c, argv[2], s.val, e.val) < 0
                  THEN [ret |-> -1, c |-> a1.c]
                  ELSE sysgen_mapAdd(c, argv[2], s.val, e.val, at.attr)

\* sysgen_cmdMap(argc, argv): [ret, c]
sysgen_cmdMap(c, argv) ==
    IF Len(argv) # 5 THEN [ret |-> -1, c |-> c]
    ELSE LET s == Strtoul(argv[3])
             e == Strtoul(argv[4])
             at == sysgen_strAttr2ui(argv[5])
         IN  IF s.end # <<>> THEN [ret |-> -1, c |-> c]
             ELSE IF e.end # <<>> THEN [ret |-> -1, c |-> c]
             ELSE IF at.ret < 0 THEN [ret |-> at.ret, c |-> c]
             ELSE IF sysgen_mapOverlapping(c, argv[2], s.val, e.val) < 0
                  THEN [ret |-> -1, c |-> c]
                  ELSE sysgen_mapAdd(c, argv[2], s.val, e.val, at.attr)

\* ------------------------------------------------------------------ app
\* a zeroed syspage_prog_t
ZeroProg == [t |-> "prog", next |-> 0, prev |-> 0, start |-> 0, end |-> 0,
             argv |-> 0, imapSz |-> 0, imaps |-> 0, dmapSz |-> 0, dmaps |-> 0]

RECURSIVE CountSep(_, _)
CountSep(maps, sep) ==
    IF maps = <<>> THEN 0
    ELSE (IF Head(maps) = sep THEN 1 ELSE 0) + CountSep(Tail(maps), sep)

\* sysgen_mapsParse(maps, sep): the number of names
sysgen_mapsParse(maps, sep) == CountSep(maps, sep) + 1

RECURSIVE SplitAt(_, _, _)
\* the strings sysgen_mapsParse leaves in place of maps: every separator
\* has become a terminator
SplitAt(maps, sep, cur) ==
    IF maps = <<>> THEN <<cur>>
    ELSE IF Head(maps) = sep THEN <<cur>> \o SplitAt(Tail(maps), sep, <<>>)
         ELSE SplitAt(Tail(maps), sep, Append(cur, Head(maps)))

RECURSIVE MapsAdd2ProgLoop(_, _, _, _, _)
MapsAdd2ProgLoop(c, o, nb, names, i) ==
    IF i > nb THEN [ret |-> 0, c |-> c]
    ELSE LET r == sysgen_mapNameResolve(c, names[i])
         IN  IF r.ret < 0 THEN [ret |-> r.ret, c |-> c]
             ELSE MapsAdd2ProgLoop([c EXCEPT !.buff[o][i] = r.id], o, nb, names, i + 1)

\* a faulty variant of sysgen_mapsAdd2Prog: a name that does not resolve is
\* not reported
sysgen_mapsAdd2Prog_Unreported(c, o, nb, names) ==
    [ret |-> 0, c |-> MapsAdd2ProgLoop(c, o, nb, names, 1).c]

\* sysgen_mapsAdd2Prog(mapIDs, nb, mapNames): [ret, c]; o is the host offset
\* of the id array
sysgen_mapsAdd2Prog(c, o, nb, names) == MapsAdd2ProgLoop(c, o, nb, names, 1)

\* a faulty variant of ProgEnd: the end is taken to be the size
ProgEnd_SizeOnly(alias) == alias.size

\* program start and end, from the alias
ProgStart(alias) == alias.addr
ProgEnd(alias) == alias.addr + alias.size

\* a zero byte of the buffer
NUL == ""

\* a faulty variant of ProgArgv: the text is copied to the start of the region
ProgArgv_NoMarker(appArgv, isExec) ==
    [i \in 1..(isExec + Len(appArgv) + 1) |->
        IF i \in 1..Len(appArgv) THEN appArgv[i] ELSE NUL]

\* the bytes sysgen_appAdd leaves in the zeroed argv region of argvSz bytes:
\* argv[0] = 'X' if isExec, memcpy(argv + isExec, appArgv, len),
\* argv[argvSz - 1] = '\0'
ProgArgv(appArgv, isExec) ==
    LET len == Len(appArgv)
        argvSz == isExec + len + 1
        zeroed == [i \in 1..argvSz |-> NUL]
        marked == IF isExec = 1 THEN [zeroed EXCEPT ![1] = "X"] ELSE zeroed
        copied == [i \in 1..argvSz |->
                     IF i - isExec \in 1..len THEN appArgv[i - isExec] ELSE marked[i]]
    IN  [copied EXCEPT ![argvSz] = NUL]

\* the part of sysgen_appAdd that links the program at ptr into the list
ProgLink(c, ptr) ==
    LET o == CAST_SYSPTR(c, ptr)
        b == c.buff
    IN  IF c.syspage.progs = 0
        THEN [c EXCEPT !.buff = [b EXCEPT ![o].next = ptr, ![o].prev = ptr],
                       !.syspage.progs = ptr]
        ELSE LET h == CAST_SYSPTR(c, c.syspage.progs)
                 b1 == [b EXCEPT ![o].prev = b[h].prev]
                 b2 == [b1 EXCEPT ![CAST_SYSPTR(c, b1[h].prev)].next = ptr]
                 b3 == [b2 EXCEPT ![o].next = c.syspage.progs]
                 b4 == [b3 EXCEPT ![h].prev = ptr]
             IN  [c EXCEPT !.buff = b4]

\* sysgen_appAdd(name, imaps, dmaps, appArgv, flags): [ret, c]
sysgen_appAdd(c, name, imaps, dmaps, appArgv, isExec) ==
    LET ai == sysgen_aliasFind(c, name)
    IN  IF ai = 0 THEN [ret |-> -1, c |-> c]
        ELSE
        LET alias == c.aliases[ai]
            imapSz == sysgen_mapsParse(imaps, ";")
            dmapSz == sysgen_mapsParse(dmaps, ";")
            inames == SplitAt(imaps, ";", <<>>)
            dnames == SplitAt(dmaps, ";", <<>>)
            len == Len(appArgv)
            argvSz == isExec + len + 1
            a0 == sysgen_buffAlloc(c, SizeofProgT)
        IN  IF a0.ptr = 0 THEN [ret |-> -1, c |-> c]
            ELSE
            LET o == CAST_SYSPTR(c, a0.ptr)
                ad == sysgen_buffAlloc(a0.c, dmapSz)
                ai2 == sysgen_buffAlloc(ad.c, imapSz)
                av == sysgen_buffAlloc(ai2.c, argvSz)
                b0 == (o :> [ZeroProg EXCEPT !.dmaps = ad.ptr, !.imaps = ai2.ptr,
                                             !.argv = av.ptr]) @@ c.buff
            IN  IF ad.ptr = 0 \/ ai2.ptr = 0 \/ av.ptr = 0
                THEN [ret |-> -1, c |-> [av.c EXCEPT !.buff = b0]]
                ELSE
                LET b1 == [b0 EXCEPT ![o].imapSz = imapSz, ![o].dmapSz = dmapSz,
                                     ![o].start = ProgStart(alias),
                                     ![o].end = ProgEnd(alias)]
                    b2 == (CAST_SYSPTR(c, av.ptr) :> ProgArgv(appArgv, isExec))
                          @@ (CAST_SYSPTR(c, ai2.ptr) :> [i \in 1..imapSz |-> 0])
                          @@ (CAST_SYSPTR(c, ad.ptr) :> [i \in 1..dmapSz |-> 0])
                          @@ b1
                    c2 == [av.c EXCEPT !.buff = b2]
                    ri == sysgen_mapsAdd2Prog(c2, CAST_SYSPTR(c, ai2.ptr), imapSz, inames)
                IN  IF ri.ret < 0 THEN ri
                    ELSE LET rd == sysgen_mapsAdd2Prog(ri.c, CAST_SYSPTR(c, ad.ptr),
                                                       dmapSz, dnames)
                         IN  IF rd.ret < 0 THEN rd
                             ELSE [ret |-> 0, c |-> ProgLink(rd.c, a0.ptr)]

\* a faulty variant of UpToSep: the name is not cut at the separator
UpToSep_Whole(s, sep) == s

RECURSIVE UpToSep(_, _)
\* the characters of s before the first sep
UpToSep(s, sep) ==
    IF s = <<>> \/ Head(s) = sep THEN <<>>
    ELSE <<Head(s)>> \o UpToSep(Tail(s), sep)

\* sysgen_cmdApp(argc, argv): [ret, c]
sysgen_cmdApp(c, argv) ==
    LET argc == Len(argv)
    IN  IF argc < 5 \/ argc > 6 THEN [ret |-> -1, c |-> c]
        ELSE
        LET dash == argv[3][1] = "-"
            isX == Len(argv[3]) = 2 /\ argv[3][2] \in {"x", "X"}
            flags == IF dash /\ isX THEN 1 ELSE 0
            \* index (from 0, as in the code) of the name token
            argvID == IF dash /\ isX THEN 3 ELSE 2
        IN  IF dash /\ ~isX THEN [ret |-> -1, c |-> c]
            ELSE IF argvID # argc - 3 THEN [ret |-> -1, c |-> c]
            ELSE LET appArgv == argv[argvID + 1]
                     name == UpToSep(appArgv, ";")
                 IN  sysgen_appAdd(c, name, argv[argvID + 2], argv[argvID + 3],
                                   appArgv, flags)

\* -------------------------------------------------------------- console
\* sysgen_cmdConsole(argc, argv): [ret, c]
sysgen_cmdConsole(c, argv) ==
    IF Len(argv) # 2 THEN [ret |-> -EINVAL, c |-> c]
    ELSE LET major == Strtoul(argv[2])
         IN  IF major.end = <<>> \/ Head(major.end) # "."
             THEN [ret |-> -EINVAL, c |-> c]
             ELSE LET minor == Strtoul(Tail(major.end))
                  IN  IF minor.end # <<>> THEN [ret |-> -EINVAL, c |-> c]
                      ELSE [ret |-> 0, c |-> [c EXCEPT !.syspage.console = minor.val]]

\* --------------------------------------------------------------- script
RECURSIVE ParseArgLoop(_, _, _)
\* tokens left, argc so far, bytes of the argument buffer used so far
ParseArgLoop(toks, argc, used) ==
    IF toks = <<>> THEN argc
    ELSE IF argc + 1 >= SIZE_CMD_ARGV THEN -EINVAL
    ELSE IF used + Len(Head(toks)) >= SIZE_CMD_ARG_LINE THEN -ENOMEM
    ELSE ParseArgLoop(Tail(toks), argc + 1, used + Len(Head(toks)) + 1)

\* sysgen_parseArgLine(lines, buf, bufsz, argv, argvsz) on a line given as
\* its blank-separated tokens: argc, or a negative error
sysgen_parseArgLine(lines) == ParseArgLoop(lines, 0, 0)

T_alias == <<"a", "l", "i", "a", "s">>
T_map == <<"m", "a", "p">>
T_app == <<"a", "p", "p">>
T_console == <<"c", "o", "n", "s", "o", "l", "e">>

\* cmds[]
cmds == <<T_alias, T_map, T_app, T_console>>

\* cmds[i].run(argc, argv)
RunCmd(c, i, argv) ==
    CASE i = 1 -> sysgen_cmdAlias(c, argv)
      [] i = 2 -> sysgen_cmdMap(c, argv)
      [] i = 3 -> sysgen_cmdApp(c, argv)
      [] i = 4 -> sysgen_cmdConsole(c, argv)

\* --------------------------------------------------------------- inputs
\* build configurations (-s pimg:offs:sz): a roomy one placed away from 0,
\* one that holds a single map and a single program, and one smaller than
\* the header
Configs ==
    { [pkernel |-> 4096, offs |-> 68, maxsz |-> 512],
      [pkernel |-> 0, offs |-> 0, maxsz |-> 160],
      [pkernel |-> 0, offs |-> 0, maxsz |-> 4] }

\* an alias name longer than the name field of phfs_alias_t
LongName == [i \in 1..(AliasNameSz + 1) |-> "n"]

N_app1 == <<"a", "p", "p", "1">>
N_ocram == <<"o", "c", "r", "a", "m">>
N_dtcm == <<"d", "t", "c", "m">>
N_flash0 == <<"f", "l", "a", "s", "h", "0">>

AliasLines ==
    { <<T_alias, N_app1, <<"0", "x", "1", "0", "0", "0">>, <<"0", "x", "2", "0", "0">>>>,
      <<T_alias, N_app1, <<"0", "x", "3", "0", "0", "0">>, <<"0", "x", "1", "0", "0">>>>,
      <<T_alias, LongName, <<"0", "x", "4", "0", "0", "0">>, <<"0", "x", "8", "0">>>>,
      <<T_alias, N_app1, <<"1", "2", "q">>, <<"1">>>>,
      <<T_alias, N_app1, <<"1", "6">>>> }

MapLines ==
    { <<T_map, N_ocram, <<"0", "x", "0">>, <<"0", "x", "1", "0", "0", "0", "0">>, <<"r", "w", "x">>>>,
      <<T_map, N_dtcm, <<"0", "x", "2", "0", "0", "0", "0">>, <<"0", "x", "3", "0", "0", "0", "0">>, <<"r", "w">>>>,
      <<T_map, N_ocram, <<"0", "x", "4", "0", "0", "0", "0">>, <<"0", "x", "5", "0", "0", "0", "0">>, <<"r">>>>,
      <<T_map, <<"i", "t", "c", "m">>, <<"0", "x", "8", "0", "0", "0">>, <<"0", "x", "2", "8", "0", "0", "0">>, <<"r", "x">>>>,
      <<T_map, <<"b", "a", "d">>, <<"0", "x", "6", "0", "0", "0", "0">>, <<"0", "x", "7", "0", "0", "0", "0">>, <<"r", "q">>>> }

AppLines ==
    { <<T_app, N_flash0, N_app1, N_ocram, N_ocram>>,
      <<T_app, N_flash0, <<"-", "x">>, <<"a", "p", "p", "1", ";", "a", "r", "g">>,
        <<"o", "c", "r", "a", "m", ";", "d", "t", "c", "m">>, N_dtcm>>,
      <<T_app, N_flash0, LongName, N_ocram, N_ocram>>,
      <<T_app, N_flash0, N_app1, <<"n", "o", "m", "a", "p">>, N_ocram>>,
      <<T_app, N_app1, N_ocram, N_ocram>> }

ConsoleLines ==
    { <<T_console, <<"0", ".", "1">>>>,
      <<T_console, <<"a", "b", "c">>>> }

\* a blank line, a line with an unknown command, two lines with too many
\* tokens, a line with a token that fills the argument buffer
OtherLines ==
    { <<>>,
      <<<<"g", "o", "!">>, N_app1>>,
      [i \in 1..SIZE_CMD_ARGV |-> IF i = 1 THEN T_console ELSE <<"1">>],
      [i \in 1..SIZE_CMD_ARGV |-> IF i = 1 THEN <<"g", "o", "!">> ELSE <<"1">>],
      <<T_console, [i \in 1..SIZE_CMD_ARG_LINE |-> "1"]>> }

Lines == AliasLines \cup MapLines \cup AppLines \cup ConsoleLines \cup OtherLines

\* ----------------------------------------------------------------- main
\* main, lines 750-757: the state when the scripts are about to be parsed
Init ==
    /\ \E cfg \in Configs :
         sysgen_common =
           [pkernel |-> cfg.pkernel, offs |-> cfg.offs, maxsz |-> cfg.maxsz,
            syspage |-> [hs_imgsz |-> 0,
                         size |-> ALIGN_ADDR(SizeofSyspageT, SizeofLongLong),
                         pkernel |-> cfg.pkernel, console |-> 0,
                         maps |-> 0, progs |-> 0],
            buff |-> EmptyBuff,
            aliases |-> <<>>]
    /\ pc = "preinit"
    /\ opened = FALSE
    /\ nlines = 0
    /\ status = -1
    /\ image = Untouched
    /\ hist = <<>>
    /\ line = <<>>
    /\ call = NoCall

Parsing == pc \in {"preinit", "user"}

\* a faulty variant of AfterScript: the result of the preinit script is not checked
AfterScript_Unchecked(script, ret) ==
    IF script = "preinit" THEN "user"
    ELSE IF ret < 0 THEN "exit" ELSE "commit"

\* main: what follows a script whose sysgen_parseScript returned ret
AfterScript(script, ret) ==
    IF ret < 0 THEN "exit"
    ELSE IF script = "preinit" THEN "user" ELSE "commit"

\* sysgen_parseScript returns ret to main
ScriptReturns(ret) ==
    /\ pc' = AfterScript(pc, ret)
    /\ opened' = FALSE
    /\ status' = IF AfterScript(pc, ret) = "exit" THEN EXIT_FAILURE ELSE status

\* fopen of the script fails
ScriptOpenFail ==
    /\ Parsing /\ ~opened
    /\ ScriptReturns(-1)
    /\ UNCHANGED <<sysgen_common, nlines, image, hist, line, call>>

\* fopen of the script succeeds
ScriptOpen ==
    /\ Parsing /\ ~opened
    /\ opened' = TRUE
    /\ UNCHANGED <<sysgen_common, pc, nlines, status, image, hist, line, call>>

\* getline returns -1, or a line that starts with a terminator
ScriptEnd ==
    /\ Parsing /\ opened
    /\ ScriptReturns(0)
    /\ UNCHANGED <<sysgen_common, nlines, image, hist, line, call>>

\* a faulty variant of FindCmd: the last entry of cmds is never compared
FindCmd_Short(name) ==
    IF \E i \in 1..(Len(cmds) - 1) : cmds[i] = name
    THEN CHOOSE i \in 1..(Len(cmds) - 1) : cmds[i] = name
    ELSE 0

\* the index in cmds of the command named name, 0 if there is none
FindCmd(name) ==
    IF \E i \in 1..Len(cmds) : cmds[i] = name
    THEN CHOOSE i \in 1..Len(cmds) : cmds[i] = name
    ELSE 0

\* getline returns the line l
ReadsLine(l) ==
    /\ Parsing /\ opened
    /\ nlines' = nlines + 1
    /\ line' = l
    /\ UNCHANGED call

\* a line that sysgen_parseArgLine rejects
LineError(l) ==
    /\ ReadsLine(l)
    /\ sysgen_parseArgLine(l) < 0
    /\ ScriptReturns(sysgen_parseArgLine(l))
    /\ UNCHANGED <<sysgen_common, image, hist>>

\* an empty line, or a line whose first token names no command
LineSkipped(l) ==
    /\ ReadsLine(l)
    /\ \/ sysgen_parseArgLine(l) = 0
       \/ sysgen_parseArgLine(l) > 0 /\ FindCmd(l[1]) = 0
    /\ UNCHANGED <<sysgen_common, pc, opened, status, image, hist>>

\* a line that names command i: the command runs
LineCmd(l, i) ==
    /\ ReadsLine(l)
    /\ sysgen_parseArgLine(l) > 0
    /\ FindCmd(l[1]) = i
    /\ LET r == RunCmd(sysgen_common, i, l)
       IN  /\ sysgen_common' = r.c
           /\ hist' = Append(hist, [argv |-> l, ret |-> r.ret])
           /\ IF r.ret < 0 THEN ScriptReturns(r.ret)
              ELSE UNCHANGED <<pc, opened, status>>
    /\ UNCHANGED image


\* sysgen_addSyspage2Img: the image cannot be opened or positioned (res < 0),
\* or fwrite writes sz of the syspage->size bytes asked for
WriteImage ==
    /\ pc = "commit"
    /\ \/ /\ image' = image
          /\ status' = EXIT_FAILURE
       \/ \E sz \in {0, sysgen_common.syspage.size} :
             /\ image' = [touched |-> TRUE, asked |-> sysgen_common.syspage.size,
                          written |-> sz]
             /\ status' = IF sz < sysgen_common.syspage.size
                          THEN EXIT_FAILURE ELSE EXIT_SUCCESS
    /\ pc' = "exit"
    /\ UNCHANGED <<sysgen_common, opened, nlines, hist, line, call>>

Next ==
    \/ ScriptOpenFail
    \/ ScriptOpen
    \/ ScriptEnd
    \/ \E l \in Lines : nlines < MaxLines /\ LineError(l)
    \/ \E l \in Lines : nlines < MaxLines /\ LineSkipped(l)
    \/ \E l \in Lines, i \in 1..Len(cmds) : nlines < MaxLines /\ LineCmd(l, i)
    \/ WriteImage

Spec == Init /\ [][Next]_vars

\* ------------------------------------------------------ a long script
\* A run whose preinit script defines one alias and then map after map with
\* fresh names and adjacent intervals, and may end with one app command that
\* names the latest map: the map list grows past the range of a uint8_t id.

RECURSIVE Dec(_)
\* the decimal numeral of n
Dec(n) == IF n < 10 THEN <<Digits[n + 1]>>
          ELSE Append(Dec(n \div 10), Digits[(n % 10) + 1])

\* the k-th map line of the long script, k = 0, 1, ...
LongMapLine(k) ==
    <<T_map, <<"m">> \o Dec(k), Dec(LongMapSpan * k), Dec(LongMapSpan * (k + 1)), <<"r">>>>

InitLong ==
    /\ sysgen_common =
           [pkernel |-> 0, offs |-> 0, maxsz |-> LongMaxsz,
            syspage |-> [hs_imgsz |-> 0,
                         size |-> ALIGN_ADDR(SizeofSyspageT, SizeofLongLong),
                         pkernel |-> 0, console |-> 0,
                         maps |-> 0, progs |-> 0],
            buff |-> EmptyBuff,
            aliases |-> <<>>]
    /\ pc = "preinit"
    /\ opened = FALSE
    /\ nlines = 0
    /\ status = -1
    /\ image = Untouched
    /\ hist = <<>>
    /\ line = <<>>
    /\ call = NoCall

\* the commands of the long script that have run
LongMapsRun == Cardinality({i \in 1..Len(hist) : hist[i].argv[1] = T_map})
LongAppsRun == Cardinality({i \in 1..Len(hist) : hist[i].argv[1] = T_app})

LongAlias ==
    /\ hist = <<>>
    /\ LineCmd(<<T_alias, N_app1, <<"0", "x", "1", "0", "0", "0">>,
                 <<"0", "x", "2", "0", "0">>>>, 1)

LongMap ==
    /\ hist # <<>> /\ LongAppsRun = 0
    /\ LongMapsRun < LongMaps
    /\ LineCmd(LongMapLine(LongMapsRun), 2)

LongApp ==
    /\ LongMapsRun > 0 /\ LongAppsRun = 0
    /\ LineCmd(<<T_app, N_flash0, N_app1, <<"m">> \o Dec(LongMapsRun - 1),
                 <<"m", "0">>>>, 3)

NextLong ==
    \/ ScriptOpen
    \/ LongAlias
    \/ LongMap
    \/ LongApp

SpecLong == InitLong /\ [][NextLong]_vars

\* ------------------------------------------------------ app commands
\* A run whose preinit script defines an alias and two maps, adds one program
\* and then holds app lines with every combination of a name token, the exec
\* flag and two map lists, the lists with several, empty and unknown names.

\* Number of further app lines of such a script.
MaxApps == 1

N_nomap == <<"n", "o", "m", "a", "p">>
Semi == <<";">>

AppNameToks == { N_app1, N_app1 \o Semi \o <<"a", "r", "g">> }

AppLists ==
    { N_ocram, N_dtcm, N_ocram \o Semi \o N_dtcm,
      N_ocram \o Semi, Semi \o N_ocram, N_nomap,
      N_ocram \o Semi \o Semi \o N_dtcm, N_ocram \o Semi \o N_nomap }

AppPreludeLines ==
    << <<T_alias, N_app1, <<"0", "x", "1", "0", "0", "0">>, <<"0", "x", "2", "0", "0">>>>,
       <<T_map, N_ocram, <<"0", "x", "0">>, <<"0", "x", "1", "0", "0", "0", "0">>, <<"r", "w", "x">>>>,
       <<T_map, N_dtcm, <<"0", "x", "2", "0", "0", "0", "0">>, <<"0", "x", "3", "0", "0", "0", "0">>, <<"r", "w">>>>,
       <<T_app, N_flash0, <<"-", "x">>, N_app1 \o Semi \o <<"a", "r", "g">>,
         N_ocram \o Semi \o N_dtcm, N_dtcm>> >>

AppPrelude ==
    /\ Len(hist) < Len(AppPreludeLines)
    /\ LineCmd(AppPreludeLines[Len(hist) + 1], FindCmd(AppPreludeLines[Len(hist) + 1][1]))

AppCmd(tok, x, il, dl) ==
    /\ Len(hist) >= Len(AppPreludeLines)
    /\ Len(hist) < Len(AppPreludeLines) + MaxApps
    /\ LineCmd(<<T_app, N_flash0>> \o (IF x = 1 THEN <<<<"-", "x">>>> ELSE <<>>)
                 \o <<tok, il, dl>>, 3)

NextApp ==
    \/ ScriptOpen
    \/ AppPrelude
    \/ \E tok \in AppNameToks, x \in {0, 1}, il \in AppLists, dl \in AppLists :
          AppCmd(tok, x, il, dl)

SpecApp == Init /\ [][NextApp]_vars

\* -------------------------------------------------- console commands
\* A run whose preinit script holds console lines with every token of up to
\* MaxTok characters over digits, the separator and a letter.

\* Longest console token.
MaxTok == 4
\* Number of console lines of such a script.
MaxConsoles == 2

ConsoleChars == {"1", "2", ".", "a"}

ConsoleToks == UNION { [1..n -> ConsoleChars] : n \in 1..MaxTok }

ConsoleCmd(tok) ==
    /\ Len(hist) < MaxConsoles
    /\ LineCmd(<<T_console, tok>>, 4)

NextConsole ==
    \/ ScriptOpen
    \/ \E tok \in ConsoleToks : ConsoleCmd(tok)

SpecConsole == InitLong /\ [][NextConsole]_vars

\* ------------------------------------------------- attribute codes
\* sysgen_strAttr2ui called on every string of up to MaxAttrLen characters
\* over the six attribute letters, an upper-case letter and another letter.

\* Longest attribute code.
MaxAttrLen == 3

AttrChars == {"r", "w", "x", "s", "c", "b", "R", "q"}

AttrStrs == UNION { [1..n -> AttrChars] : n \in 0..MaxAttrLen }

AttrCall(str) ==
    /\ call = NoCall
    /\ call' = [fn |-> "sysgen_strAttr2ui", str |-> str,
                ret |-> sysgen_strAttr2ui(str).ret,
                attr |-> sysgen_strAttr2ui(str).attr]
    /\ UNCHANGED <<sysgen_common, pc, opened, nlines, status, image, hist, line>>

NextAttr == \E str \in AttrStrs : AttrCall(str)

SpecAttr == InitLong /\ [][NextAttr]_vars

\* ---------------------------------------------------- allocations
\* sysgen_buffAlloc called with one size after another, under each build
\* configuration; a region of sz > 0 bytes that it returns is written to.

\* Number of regions allocated in one run.
MaxAllocs == 3

\* sizes asked for: among them sizeof(syspage_prog_t) and the size that takes
\* the second configuration exactly to its maxsz
AllocSizes == {0, 1, 8, 9, SizeofProgT, 136}

\* the bytes written to a region of sz bytes
Region(sz) == [t |-> "raw", sz |-> sz]

AllocCall(sz) ==
    /\ Cardinality(DOMAIN sysgen_common.buff) < MaxAllocs
    /\ LET r == sysgen_buffAlloc(sysgen_common, sz)
       IN  /\ call' = [fn |-> "sysgen_buffAlloc", sz |-> sz, ptr |-> r.ptr]
           /\ sysgen_common' =
                 IF r.ptr = 0 \/ sz = 0 THEN r.c
                 ELSE [r.c EXCEPT !.buff = (CAST_SYSPTR(r.c, r.ptr) :> Region(sz)) @@ @]
    /\ UNCHANGED <<pc, opened, nlines, status, image, hist, line>>

NextAlloc == \E sz \in AllocSizes : AllocCall(sz)

SpecAlloc == Init /\ [][NextAlloc]_vars

\* ------------------------------------------------ reading the syspage
\* The definitions below read the state for the properties; they are not
\* part of the program.

\* the object at execution address ptr, if there is one
HasObj(c, ptr) == CAST_SYSPTR(c, ptr) \in DOMAIN c.buff
Obj(c, ptr) == c.buff[CAST_SYSPTR(c, ptr)]

RECURSIVE ListBlock(_, _, _, _)
\* up to n addresses met by following next from ptr until anchor comes again
ListBlock(c, anchor, ptr, n) ==
    IF ~HasObj(c, ptr) \/ Obj(c, ptr).next = anchor
    THEN [done |-> TRUE, seq |-> <<ptr>>, ptr |-> ptr]
    ELSE IF n <= 1 THEN [done |-> FALSE, seq |-> <<ptr>>, ptr |-> Obj(c, ptr).next]
         ELSE LET r == ListBlock(c, anchor, Obj(c, ptr).next, n - 1)
              IN  [r EXCEPT !.seq = <<ptr>> \o @]

RECURSIVE ListFrom(_, _, _, _)
\* the addresses met by following next from ptr until anchor comes again
ListFrom(c, anchor, ptr, fuel) ==
    LET r == ListBlock(c, anchor, ptr, WalkBlock)
    IN  IF r.done \/ fuel = 0 THEN r.seq
        ELSE r.seq \o ListFrom(c, anchor, r.ptr, fuel - 1)

\* the entries of the list anchored at anchor, head first
ListOf(c, anchor) ==
    IF anchor = 0 THEN <<>> ELSE ListFrom(c, anchor, anchor, Fuel(c))

MapPtrs == ListOf(sysgen_common, sysgen_common.syspage.maps)
ProgPtrs == ListOf(sysgen_common, sysgen_common.syspage.progs)

\* the commands named cmd that have succeeded, in the order they ran
OkCmds(cmd) ==
    LET Test(h) == h.ret = 0 /\ h.argv[1] = cmd
    IN  SelectSeq(hist, Test)

AllOk == \A i \in 1..Len(hist) : hist[i].ret = 0
Failed == hist # <<>> /\ hist[Len(hist)].ret < 0

\* a list is empty or circular and doubly linked, and following next from
\* the head meets exactly n entries, at increasing addresses
WellFormed(c, anchor, n) ==
    LET l == ListOf(c, anchor)
    IN  /\ Len(l) = n
        /\ anchor = 0 <=> n = 0
        /\ \A i \in 1..n : HasObj(c, l[i])
        /\ \A i \in 1..n : \A j \in 1..n : i < j => l[i] < l[j]
        /\ n > 0 =>
             /\ l[1] = anchor
             /\ Obj(c, l[1]).prev = l[n]
             /\ Obj(c, l[n]).next = l[1]
             /\ \A i \in 1..n :
                   /\ HasObj(c, Obj(c, l[i]).next)
                   /\ Obj(c, Obj(c, l[i]).next).prev = l[i]
             /\ \A i \in 1..(n - 1) : Obj(c, l[i]).next = l[i + 1]

\* ----------------------------------------------------------- properties

\* C1: the image is written only after the preinit script and then the user
\* script have been parsed to their end with every command succeeding; a
\* failing command ends the run at once with a non-zero status: no further
\* command runs, the user script is not started after a failed preinit
\* script, and the image is never touched.
C1_CommitOnlyAfterBothScripts ==
    /\ [](image.touched => AllOk /\ pc = "exit")
    /\ [](Failed => pc = "exit" /\ status = EXIT_FAILURE /\ ~image.touched)
    /\ [](status = EXIT_SUCCESS => image.touched /\ image.written = image.asked)
    /\ [][/\ (pc' = "user" /\ pc # "user") => (pc = "preinit" /\ opened /\ AllOk)
          /\ (pc' = "commit" /\ pc # "commit") => (pc = "user" /\ opened /\ AllOk)
          /\ image' # image => (pc = "commit" /\ AllOk)
          /\ hist' # hist => (~Failed /\ Parsing /\ opened)
          /\ Failed => (sysgen_common' = sysgen_common /\ pc' = "exit")]_vars

\* C1 witness: the image has been written in full after a preinit script and a
\* user script that ran commands.
C1_Witness ==
    /\ image.touched /\ image.written = image.asked
    /\ status = EXIT_SUCCESS
    /\ Len(hist) >= 2

\* the half-open intervals of two maps have an address in common
Intersect(m1, m2) ==
    LET lo == IF m1.start > m2.start THEN m1.start ELSE m2.start
        hi == IF m1.end < m2.end THEN m1.end ELSE m2.end
    IN  lo < hi

\* C2: any two distinct maps of the map list have different names and
\* intervals [start, end) that do not intersect.
C2_MapsDisjoint ==
    LET c == sysgen_common
        l == MapPtrs
    IN  /\ \A i \in 1..Len(l) : HasObj(c, l[i]) /\ HasObj(c, Obj(c, l[i]).name)
        /\ \A i \in 1..Len(l) : \A j \in 1..Len(l) :
              i # j =>
                /\ l[i] # l[j]
                /\ Obj(c, Obj(c, l[i]).name) # Obj(c, Obj(c, l[j]).name)
                /\ ~Intersect(Obj(c, l[i]), Obj(c, l[j]))

\* C2 witness: two maps are in the list and a third map command has just been
\* rejected.
C2_Witness ==
    /\ Len(MapPtrs) >= 2
    /\ Failed
    /\ hist[Len(hist)].argv[1] = T_map
    /\ sysgen_strAttr2ui(hist[Len(hist)].argv[5]).ret = 0

\* C5: each of the two lists is empty (anchor 0) or circular and doubly
\* linked, and following next from the head meets every added entry once, in
\* the order of the commands that added them.
C5_ListsWellFormed ==
    LET c == sysgen_common
        maps == OkCmds(T_map)
        apps == OkCmds(T_app)
        l == MapPtrs
        p == ProgPtrs
    IN  /\ WellFormed(c, c.syspage.maps, Len(maps))
        /\ WellFormed(c, c.syspage.progs, Len(apps))
        /\ \A k \in 1..Len(maps) :
              /\ HasObj(c, Obj(c, l[k]).name)
              /\ Obj(c, Obj(c, l[k]).name) = maps[k].argv[2]
        /\ \A k \in 1..Len(apps) : Obj(c, p[k]).t = "prog"

\* C5 witness: the map list has two entries and the program list has one.
C5_Witness == Len(MapPtrs) = 2 /\ Len(ProgPtrs) = 1

\* the size of the syspage once main has placed the header
HeaderSize == ALIGN_ADDR(SizeofSyspageT, SizeofLongLong)

\* C6: the syspage size never exceeds the configured maximum size, from the
\* state in which the header has been placed on, and the image write asks for
\* no more bytes than the buffer holds.
C6_SizeWithinMaxsz ==
    /\ sysgen_common.syspage.size <= sysgen_common.maxsz
    /\ image.touched => image.asked <= sysgen_common.maxsz

\* an execution address inside the allocated part of the buffer, after the header
InArena(c, a) ==
    /\ c.pkernel + c.offs + HeaderSize <= a
    /\ a < c.pkernel + c.offs + c.syspage.size

\* C7: every address field of the syspage (the two anchors, the next and prev
\* links, the map name addresses, the id-array and argv addresses of the
\* programs) is the 0 anchor of an empty list or an execution address inside
\* the allocated part of the buffer, where an object has been placed.
C7_AddressesInArena ==
    LET c == sysgen_common
        Good(a) == InArena(c, a) /\ HasObj(c, a)
        l == MapPtrs
        p == ProgPtrs
    IN  /\ c.syspage.maps = 0 \/ Good(c.syspage.maps)
        /\ c.syspage.progs = 0 \/ Good(c.syspage.progs)
        /\ c.syspage.maps = 0 <=> OkCmds(T_map) = <<>>
        /\ c.syspage.progs = 0 <=> OkCmds(T_app) = <<>>
        /\ \A i \in 1..Len(l) :
              /\ Good(l[i])
              /\ Good(Obj(c, l[i]).next)
              /\ Good(Obj(c, l[i]).prev)
              /\ Good(Obj(c, l[i]).name)
        /\ \A i \in 1..Len(p) :
              /\ Good(p[i])
              /\ Good(Obj(c, p[i]).next)
              /\ Good(Obj(c, p[i]).prev)
              /\ Good(Obj(c, p[i]).imaps)
              /\ Good(Obj(c, p[i]).dmaps)
              /\ Good(Obj(c, p[i]).argv)

\* C7 witness: a map and a program are linked in a syspage that is loaded away
\* from address 0 at a non-zero image offset.
C7_Witness ==
    /\ Len(MapPtrs) >= 1 /\ Len(ProgPtrs) >= 1
    /\ sysgen_common.pkernel > 0 /\ sysgen_common.offs > 0

\* the indices in hist of the commands named cmd that have succeeded
OkIdx(cmd) ==
    LET Test(i) == hist[i].ret = 0 /\ hist[i].argv[1] = cmd
    IN  SelectSeq([i \in 1..Len(hist) |-> i], Test)

\* the address and the size an alias command line gives
GivenAddr(argv) == Strtoul(argv[3]).val
GivenSize(argv) == Strtoul(argv[4]).val

\* the greatest of the numbers in S, 0 if there is none
MaxOf(S) == IF S = {} THEN 0 ELSE CHOOSE m \in S : \A x \in S : x <= m

\* C9: the declared image size is the maximum of address + size over the
\* alias commands that have succeeded, 0 if there is none (so it never
\* decreases and no other command changes it).
C9_ImgszIsMaxAliasEnd ==
    sysgen_common.syspage.hs_imgsz =
        MaxOf({ GivenAddr(hist[i].argv) + GivenSize(hist[i].argv) :
                  i \in { OkIdx(T_alias)[k] : k \in 1..Len(OkIdx(T_alias)) } })

\* C9 witness: the last of several alias commands ends below the declared image
\* size, and a map command has run as well.
C9_Witness ==
    LET al == OkCmds(T_alias)
    IN  /\ Len(al) >= 2
        /\ GivenAddr(al[Len(al)].argv) + GivenSize(al[Len(al)].argv)
             < sysgen_common.syspage.hs_imgsz
        /\ Len(OkCmds(T_map)) >= 1

\* the name an app command line looks up: its name token up to the first ';'
LookupName(argv) == UpToSep(argv[Len(argv) - 2], ";")

\* the index in hist of the alias command that a lookup of name at index hi
\* finds: the latest earlier alias whose stored name is name; 0 if none
ResolvedAlias(hi, name) ==
    MaxOf({ j \in 1..(hi - 1) :
              /\ hist[j].ret = 0 /\ hist[j].argv[1] = T_alias
              /\ Strncpy(hist[j].argv[2], AliasNameSz) = name })

\* C10 as stated: a program's start is the address given in the alias command
\* it resolves to and its end is that address plus the alias size, whatever
\* the load address.
C10_StartIsAliasAddress ==
    LET c == sysgen_common
        apps == OkIdx(T_app)
        p == ProgPtrs
    IN  /\ Len(p) = Len(apps)
        /\ \A k \in 1..Len(apps) :
              LET j == ResolvedAlias(apps[k], LookupName(hist[apps[k]].argv))
              IN  /\ j # 0
                  /\ Obj(c, p[k]).start = GivenAddr(hist[j].argv)
                  /\ Obj(c, p[k]).end =
                        GivenAddr(hist[j].argv) + GivenSize(hist[j].argv)

\* C10 amended: a program's start is the load address plus the address given
\* in the alias command it resolves to, and its end is its start plus the
\* alias size.
C10_StartIsLoadAddressPlusAlias ==
    LET c == sysgen_common
        apps == OkIdx(T_app)
        p == ProgPtrs
    IN  /\ Len(p) = Len(apps)
        /\ \A k \in 1..Len(apps) :
              LET j == ResolvedAlias(apps[k], LookupName(hist[apps[k]].argv))
              IN  /\ j # 0
                  /\ Obj(c, p[k]).start = c.pkernel + GivenAddr(hist[j].argv)
                  /\ Obj(c, p[k]).end =
                        c.pkernel + GivenAddr(hist[j].argv) + GivenSize(hist[j].argv)

\* C10 witness: a program has been created from the later of two aliases of the
\* same name under a non-zero load address.
C10_Witness ==
    /\ sysgen_common.pkernel # 0
    /\ Len(ProgPtrs) >= 1
    /\ Len(OkCmds(T_alias)) >= 2

\* the names looked up in C8
ProbeNames == {N_app1, N_ocram, LongName}

\* C8: find(name) returns the most recently defined alias of that name, and
\* reports not-found exactly when no alias command named it; an app command
\* naming an undefined alias fails.
C8_FindMostRecent ==
    LET c == sysgen_common
        al == OkIdx(T_alias)
        Defs(n) == { k \in 1..Len(al) : hist[al[k]].argv[2] = n }
    IN  /\ \A n \in ProbeNames :
              LET f == sysgen_aliasFind(c, n)
              IN  /\ f = 0 <=> Defs(n) = {}
                  /\ f # 0 =>
                       LET k == MaxOf(Defs(n))
                       IN  /\ f = Len(al) - k + 1
                           /\ c.aliases[f].size = GivenSize(hist[al[k]].argv)
                           /\ c.aliases[f].addr =
                                 c.pkernel + GivenAddr(hist[al[k]].argv)
        /\ \A i \in 1..Len(hist) :
              (hist[i].argv[1] = T_app /\ hist[i].ret = 0) =>
                 \E j \in 1..(i - 1) :
                    /\ hist[j].argv[1] = T_alias /\ hist[j].ret = 0
                    /\ hist[j].argv[2] = LookupName(hist[i].argv)

\* the first map of the list l of map addresses whose id is id, 0 if none:
\* the map that a reader of the syspage takes the id to name
FirstWithId(c, l, id) ==
    LET S == { i \in 1..Len(l) : Obj(c, l[i]).id = id }
    IN  IF S = {} THEN 0 ELSE l[CHOOSE i \in S : \A j \in S : i <= j]

\* C3: the k-th map command that succeeds gets id k - 1: the ids are 0, 1,
\* 2, ... along the list from its head, whatever other commands ran.
C3_KthMapHasIdKMinus1 ==
    LET c == sysgen_common
        maps == OkCmds(T_map)
        l == MapPtrs
    IN  /\ Len(l) = Len(maps)
        /\ \A k \in 1..Len(maps) :
              /\ Obj(c, Obj(c, l[k]).name) = maps[k].argv[2]
              /\ Obj(c, l[k]).id = k - 1

\* the map command that added the map named name
MapCmdOf(name) ==
    LET maps == OkCmds(T_map)
    IN  maps[CHOOSE k \in 1..Len(maps) : maps[k].argv[2] = name].argv

\* the ids at ptr name, position by position, the maps of names (l is the
\* map list): each id is
\* the id of a map of the list, and the map it names is the map called
\* names[i], with the start, end and attributes of the command that added it
IdsNameMaps(c, l, ptr, names) ==
    /\ HasObj(c, ptr)
    /\ Len(Obj(c, ptr)) = Len(names)
    /\ \A i \in 1..Len(names) :
          LET m == FirstWithId(c, l, Obj(c, ptr)[i])
          IN  /\ m # 0
              /\ Obj(c, Obj(c, m).name) = names[i]
              /\ Obj(c, m).start = Strtoul(MapCmdOf(names[i])[3]).val
              /\ Obj(c, m).end = Strtoul(MapCmdOf(names[i])[4]).val
              /\ Obj(c, m).attr = sysgen_strAttr2ui(MapCmdOf(names[i])[5]).attr

\* C4: for every program and every position of its instruction-map and
\* data-map id arrays, the stored id is the id of a map of the list, and that
\* map is the one named at that position of the app command's list.
C4_ProgramIdsNameTheirMaps ==
    LET c == sysgen_common
        apps == OkCmds(T_app)
        l == MapPtrs
        p == ProgPtrs
    IN  /\ Len(p) = Len(apps)
        /\ \A k \in 1..Len(apps) :
              LET argv == apps[k].argv
                  prog == Obj(c, p[k])
              IN  /\ IdsNameMaps(c, l, prog.imaps, SplitAt(argv[Len(argv) - 1], ";", <<>>))
                  /\ IdsNameMaps(c, l, prog.dmaps, SplitAt(argv[Len(argv)], ";", <<>>))

\* ------------------------------------------------- reading a command line
\* the positions of the ';' separators of a token
SepPos(s) == {i \in 1..Len(s) : s[i] = ";"}

\* the position of the k-th separator; 0 for k = 0, past the end if there
\* are fewer than k
SepBound(s, k) ==
    IF k = 0 THEN 0
    ELSE IF k > Cardinality(SepPos(s)) THEN Len(s) + 1
    ELSE CHOOSE i \in SepPos(s) : Cardinality({j \in SepPos(s) : j <= i}) = k

\* the names of a ;-separated list, empty names included
Names(s) ==
    [k \in 1..(Cardinality(SepPos(s)) + 1) |->
        SubSeq(s, SepBound(s, k - 1) + 1, SepBound(s, k) - 1)]

\* the part of a name token before its first ';'
BeforeSemi(s) == SubSeq(s, 1, SepBound(s, 1) - 1)

\* the entries of the map list l that are called name
MapsNamed(c, l, name) ==
    {i \in 1..Len(l) : HasObj(c, l[i]) /\ HasObj(c, Obj(c, l[i]).name)
                          /\ Obj(c, Obj(c, l[i]).name) = name}

\* every name of the ;-separated list is the name of a map of the list l
AllMapsExist(c, l, list) ==
    \A k \in 1..Len(Names(list)) : MapsNamed(c, l, Names(list)[k]) # {}

RECURSIVE AllocFits(_, _, _)
\* allocations of the given sizes, in turn, all fit below maxsz from the
\* high-water mark s
AllocFits(s, maxsz, sizes) ==
    IF sizes = <<>> THEN TRUE
    ELSE LET n == ALIGN_ADDR(s + Head(sizes), SizeofLongLong)
         IN  n < maxsz /\ AllocFits(n, maxsz, Tail(sizes))

\* the arena has room for a program with the given name token and map lists
AppRoom(c, tok, imaps, dmaps, x) ==
    AllocFits(c.syspage.size, c.maxsz,
              <<SizeofProgT, Len(Names(dmaps)), Len(Names(imaps)), x + Len(tok) + 1>>)

\* the step runs one command: the entry it adds to hist
Ran(h) == hist' = Append(hist, h)

\* the list of programs after the step
ProgPtrsNext == ListOf(sysgen_common', sysgen_common'.syspage.progs)

\* the ids at ptr (after the step) are the ids of the maps that the names of
\* the list have in the map list l
IdsOfNames(c, l, ptr, list) ==
    /\ HasObj(c, ptr)
    /\ Len(Obj(c, ptr)) = Len(Names(list))
    /\ \A k \in 1..Len(Names(list)) :
          \E i \in MapsNamed(c, l, Names(list)[k]) :
              Obj(c, ptr)[k] = Obj(c, l[i]).id

\* the step appends exactly one program, made from the given lists
AppendsProgram(imaps, dmaps) ==
    LET p == ProgPtrs
        q == ProgPtrsNext
        c == sysgen_common'
    IN  /\ Len(q) = Len(p) + 1
        /\ SubSeq(q, 1, Len(p)) = p
        /\ HasObj(c, q[Len(q)])
        /\ IdsOfNames(c, MapPtrs, Obj(c, q[Len(q)]).imaps, imaps)
        /\ IdsOfNames(c, MapPtrs, Obj(c, q[Len(q)]).dmaps, dmaps)

C12_ArgvBytes ==
    LET c == sysgen_common
        apps == OkCmds(T_app)
        p == ProgPtrs
    IN  /\ Len(p) = Len(apps)
        /\ \A k \in 1..Len(apps) :
              LET a == apps[k].argv
                  tok == a[Len(a) - 2]
                  x == IF Len(a) = 6 THEN 1 ELSE 0
                  b == Obj(c, Obj(c, p[k]).argv)
              IN  /\ Len(b) = x + Len(tok) + 1
                  /\ x = 1 => b[1] = "X"
                  /\ \A i \in 1..Len(tok) : b[x + i] = tok[i]
                  /\ b[Len(b)] = NUL

\* C12 witness: two programs have been added, one with the exec flag and one
\* without, from name tokens with a ;tail.
C12_Witness ==
    LET apps == OkCmds(T_app)
    IN  /\ Len(apps) = 2 /\ Len(ProgPtrs) = 2
        /\ Len(apps[1].argv) = 6 /\ Len(apps[2].argv) = 5
        /\ SepPos(apps[1].argv[4]) # {} /\ SepPos(apps[2].argv[3]) # {}

DecChars == {"0", "1", "2", "3", "4", "5", "6", "7", "8", "9"}

\* the token is <integer>.<integer>: decimal digits, one separator, at least
\* one digit on each side
IntDotInt(tok) ==
    \E i \in 2..(Len(tok) - 1) :
        /\ tok[i] = "."
        /\ \A j \in (1..Len(tok)) \ {i} : tok[j] \in DecChars

RECURSIVE DecVal(_)
\* the number a string of decimal digits denotes (0 for the empty string)
DecVal(s) ==
    IF s = <<>> THEN 0
    ELSE 10 * DecVal(SubSeq(s, 1, Len(s) - 1)) + DigitVal(s[Len(s)])

\* the digits after the first separator of a token
AfterDot(tok) ==
    LET d == {i \in 1..Len(tok) : tok[i] = "."}
    IN  IF d = {} THEN <<>>
        ELSE SubSeq(tok, (CHOOSE i \in d : \A j \in d : i <= j) + 1, Len(tok))

\* C13: a console command succeeds exactly when its token is
\* <integer>.<integer> with an integer on each side of the separator, and the
\* console field is the integer after the separator of the latest console
\* command that succeeded (0 before any): a failing command leaves it as it was.
C13_ConsoleIntDotInt ==
    LET ok == OkCmds(T_console)
    IN  /\ \A i \in 1..Len(hist) :
              (hist[i].argv[1] = T_console /\ Len(hist[i].argv) = 2) =>
                 (hist[i].ret = 0 <=> IntDotInt(hist[i].argv[2]))
        /\ sysgen_common.syspage.console =
              IF ok = <<>> THEN 0 ELSE DecVal(AfterDot(ok[Len(ok)].argv[2]))

\* the step reads a line
Reads == nlines' = nlines + 1

\* the step leaves the build state, the commands run and the image alone and
\* goes on with the script
SkipsLine ==
    /\ UNCHANGED <<sysgen_common, hist, image, status, pc, opened>>
    /\ Parsing /\ opened

\* the step aborts the run without running a command
AbortsLine ==
    /\ UNCHANGED <<sysgen_common, hist, image>>
    /\ pc' = "exit" /\ status' = EXIT_FAILURE

\* the step runs exactly one command, on the tokens of the line l, and the
\* run is aborted if and only if the command fails
RunsLine(l) ==
    /\ \E ret \in {0, -1, -EINVAL} : Ran([argv |-> l, ret |-> ret])
    /\ UNCHANGED image
    /\ IF hist'[Len(hist')].ret < 0
       THEN pc' = "exit" /\ status' = EXIT_FAILURE
       ELSE UNCHANGED <<pc, opened, status>>

CmdNames == {T_alias, T_map, T_app, T_console}

RECURSIVE LineBytes(_)
\* the bytes the tokens of a line take in the argument buffer, each with its
\* terminator
LineBytes(l) == IF l = <<>> THEN 0 ELSE Len(Head(l)) + 1 + LineBytes(Tail(l))

\* the line has more tokens than the argument vector holds or more bytes than
\* the argument buffer holds
Oversized(l) == Len(l) >= SIZE_CMD_ARGV \/ LineBytes(l) > SIZE_CMD_ARG_LINE

\* C14 as stated: every line that is not fully blank runs exactly one of the
\* four commands or aborts the run, and is never silently skipped; a fully
\* blank line is skipped and the lines after it are still processed.
C14_NonBlankRunsOrAborts ==
    [][Reads =>
         IF line' = <<>> THEN SkipsLine
         ELSE \/ line'[1] \in CmdNames /\ RunsLine(line')
              \/ AbortsLine]_vars

\* C14 amended: a line with too many tokens or bytes aborts the run; otherwise
\* a line whose first token is one of the four command names runs exactly that
\* command once (and aborts the run if and only if the command fails), and a
\* fully blank line or a line whose first token is no command name is skipped
\* without any effect, the lines after it being still processed.
C14_UnknownCommandSkipped ==
    [][Reads =>
         IF Oversized(line') THEN AbortsLine
         ELSE IF line' # <<>> /\ line'[1] \in CmdNames THEN RunsLine(line')
         ELSE SkipsLine]_vars

\* C14 witness: after a command has run, a line with an unknown command has
\* been read and skipped, and the script is still being processed.
C14_Witness ==
    /\ line # <<>> /\ line[1] \notin CmdNames /\ ~Oversized(line)
    /\ hist # <<>> /\ Parsing /\ opened
    /\ nlines > Len(hist)

AttrLetters == {"r", "w", "x", "s", "c", "b"}

\* the attribute code has a letter that is no attribute
BadAttr(str) == \E i \in 1..Len(str) : str[i] \notin AttrLetters

\* C15: a map command whose interval intersects a map of the list, whose name
\* is the name of a map of the list, or whose attribute code has an invalid
\* letter, fails and leaves the whole build state as it was: the list, its
\* ids and links, and the high-water mark of the arena.
C15_RejectedMapChangesNothing ==
    [][\A h \in {hist'[i] : i \in (DOMAIN hist') \ (DOMAIN hist)} :
         LET a == h.argv
             c == sysgen_common
             l == MapPtrs
             new == [start |-> Strtoul(a[3]).val, end |-> Strtoul(a[4]).val]
         IN  (/\ Ran(h) /\ a[1] = T_map /\ Len(a) = 5
              /\ Strtoul(a[3]).end = <<>> /\ Strtoul(a[4]).end = <<>>
              /\ \/ BadAttr(a[5])
                 \/ MapsNamed(c, l, a[2]) # {}
                 \/ \E i \in 1..Len(l) : Intersect(Obj(c, l[i]), new))
             => (h.ret < 0 /\ sysgen_common' = sysgen_common)]_vars

\* C15 witness: a map named ocram is in the list and a second map command
\* with that name and an interval of its own has been rejected; the list has
\* one map.
C15_Witness ==
    /\ Failed
    /\ hist[Len(hist)].argv = <<T_map, N_ocram, <<"0", "x", "4", "0", "0", "0", "0">>,
                                 <<"0", "x", "5", "0", "0", "0", "0">>, <<"r">>>>
    /\ Len(MapPtrs) = 1
    /\ MapsNamed(sysgen_common, MapPtrs, N_ocram) # {}

\* the flag each attribute letter stands for
FlagOf(ch) ==
    CASE ch = "r" -> mAttrRead [] ch = "w" -> mAttrWrite [] ch = "x" -> mAttrExec
      [] ch = "s" -> mAttrShareable [] ch = "c" -> mAttrCacheable
      [] ch = "b" -> mAttrBufferable

RECURSIVE FlagUnion(_)
\* the union of the flags of a set of attribute letters (the flags are
\* distinct bits)
FlagUnion(S) ==
    IF S = {} THEN 0
    ELSE LET ch == CHOOSE x \in S : TRUE
         IN  FlagOf(ch) + FlagUnion(S \ {ch})

\* C16: sysgen_strAttr2ui succeeds exactly on the strings made of the letters
\* r, w, x, s, c, b only (the empty string included), and then returns the
\* union of the flags of the letters that occur, whatever their order and
\* number of occurrences.
C16_AttrUnionOfLetters ==
    call.fn = "sysgen_strAttr2ui" =>
        LET letters == {call.str[i] : i \in 1..Len(call.str)}
        IN  /\ call.ret = 0 <=> letters \subseteq AttrLetters
            /\ call.ret = 0 => call.attr = FlagUnion(letters)
            /\ call.ret # 0 => call.ret < 0

\* C16 witness: a code with a repeated letter, in another order than the
\* order of the flags, has been converted.
C16_Witness ==
    /\ call.fn = "sysgen_strAttr2ui"
    /\ call.str = <<"w", "r", "w">>
    /\ call.ret = 0 /\ call.attr = mAttrRead + mAttrWrite

\* n rounded up to a multiple of 8
RoundUp8(n) == CHOOSE m \in n..(n + 7) : m % 8 = 0

\* the byte ranges [lo, hi) and [lo2, hi2) have a byte in common
RangesMeet(lo, hi, lo2, hi2) == lo < hi /\ lo2 < hi2 /\ lo < hi2 /\ lo2 < hi

\* C17: allocate(sz) at the high-water mark s fails exactly when s + sz
\* rounded up to a multiple of 8 is at least the capacity, and then changes
\* nothing; otherwise it returns loadAddress + imageOffset + s, moves the mark
\* to the rounded value, leaves every earlier region as it was, and the region
\* [s, s + sz) meets neither the header nor an earlier region.
C17_AllocateContract ==
    [][call'.fn = "sysgen_buffAlloc" =>
         LET c == sysgen_common
             s == c.syspage.size
             sz == call'.sz
         IN  /\ s % 8 = 0
             /\ IF RoundUp8(s + sz) >= c.maxsz
                THEN call'.ptr = 0 /\ sysgen_common' = c
                ELSE /\ call'.ptr = c.pkernel + c.offs + s
                     /\ sysgen_common'.syspage.size = RoundUp8(s + sz)
                     /\ sysgen_common'.syspage.size <= c.maxsz
                     /\ ~RangesMeet(s, s + sz, 0, HeaderSize)
                     /\ \A o \in DOMAIN c.buff :
                           /\ ~RangesMeet(s, s + sz, o, o + c.buff[o].sz)
                           /\ o \in DOMAIN sysgen_common'.buff
                           /\ sysgen_common'.buff[o] = c.buff[o]]_vars

\* C17 witness: after two regions have been allocated, an allocation has
\* failed for lack of room.
C17_Witness ==
    /\ call.fn = "sysgen_buffAlloc"
    /\ call.ptr = 0 /\ call.sz > 0
    /\ Cardinality(DOMAIN sysgen_common.buff) = 2
    /\ sysgen_common.syspage.size < sysgen_common.maxsz

\* C18: under every build configuration, every address that an allocation
\* has returned (the address of every object of the syspage) is a multiple
\* of 8.
C18_AddressesMultipleOf8 ==
    \A o \in DOMAIN sysgen_common.buff :
        (sysgen_common.pkernel + sysgen_common.offs + o) % 8 = 0

\* the names of the instruction list followed by those of the data list
BothLists(imaps, dmaps) == Names(imaps) \o Names(dmaps)

\* the positions of BothLists whose name is not the name of a map of l
Unresolved(c, l, imaps, dmaps) ==
    {k \in 1..Len(BothLists(imaps, dmaps)) :
        MapsNamed(c, l, BothLists(imaps, dmaps)[k]) = {}}

\* the step leaves the program list as it was: anchor, entries, links and the
\* arrays of the entries
ProgListUnchanged ==
    LET c == sysgen_common
        d == sysgen_common'
        p == ProgPtrs
    IN  /\ d.syspage.progs = c.syspage.progs
        /\ ProgPtrsNext = p
        /\ \A i \in 1..Len(p) :
              /\ Obj(d, p[i]) = Obj(c, p[i])
              /\ Obj(d, Obj(c, p[i]).imaps) = Obj(c, Obj(c, p[i]).imaps)
              /\ Obj(d, Obj(c, p[i]).dmaps) = Obj(c, Obj(c, p[i]).dmaps)
              /\ Obj(d, Obj(c, p[i]).argv) = Obj(c, Obj(c, p[i]).argv)

\* C19: in an app command whose alias is found and for which the arena has
\* room, a map list with N separators gives an id array of N + 1 entries, one
\* per name, empty names included; the names are resolved in order, the
\* instruction list first: if all resolve the command succeeds, otherwise it
\* fails, the ids before the first unresolved name are written and none from
\* it on; and every app command that fails leaves the program list unchanged.
C19_ListsSplitAndResolvedInOrder ==
    [][\A h \in {hist'[i] : i \in (DOMAIN hist') \ (DOMAIN hist)} :
         LET a == h.argv
             n == Len(a)
             x == IF n = 6 THEN 1 ELSE 0
             c == sysgen_common
             d == sysgen_common'
             l == MapPtrs
         IN  /\ (Ran(h) /\ a[1] = T_app /\ h.ret < 0) => ProgListUnchanged
             /\ (/\ Ran(h) /\ a[1] = T_app
                 /\ \/ n = 5 /\ a[3][1] # "-"
                    \/ n = 6 /\ a[3] \in {<<"-", "x">>, <<"-", "X">>}
                 /\ sysgen_aliasFind(c, BeforeSemi(a[n - 2])) # 0
                 /\ AppRoom(c, a[n - 2], a[n - 1], a[n], x))
                => LET np == c.pkernel + c.offs + c.syspage.size
                       prog == Obj(d, np)
                       ids == Obj(d, prog.imaps) \o Obj(d, prog.dmaps)
                       all == BothLists(a[n - 1], a[n])
                       bad == Unresolved(c, l, a[n - 1], a[n])
                   IN  /\ HasObj(d, np)
                       /\ prog.imapSz = Cardinality(SepPos(a[n - 1])) + 1
                       /\ prog.dmapSz = Cardinality(SepPos(a[n])) + 1
                       /\ Len(Obj(d, prog.imaps)) = prog.imapSz
                       /\ Len(Obj(d, prog.dmaps)) = prog.dmapSz
                       /\ h.ret = 0 <=> bad = {}
                       /\ \A k \in 1..Len(all) :
                             IF \E f \in bad : f <= k
                             THEN ids[k] = 0
                             ELSE \E i \in MapsNamed(c, l, all[k]) :
                                     ids[k] = Obj(c, l[i]).id]_vars

\* C19 witness: with one program in the list, an app command has failed at
\* the empty name of its data list, after every name of its instruction list
\* had resolved.
C19_Witness ==
    /\ Len(hist) > 1
    /\ LET h == hist[Len(hist)]
           n == Len(h.argv)
       IN  /\ h.argv[1] = T_app /\ h.ret < 0 /\ n \in {5, 6}
           /\ h.argv[n] = N_ocram \o Semi \o Semi \o N_dtcm
           /\ h.argv[n - 1] = N_ocram \o Semi \o N_dtcm
           /\ sysgen_common.maxsz - sysgen_common.syspage.size > 100
    /\ Len(ProgPtrs) = 1

\* the first 31 characters of LongName: a name that differs from LongName
\* only after the 31st character
LongNameHead == SubSeq(LongName, 1, AliasNameSz - 1)

\* C20: after a successful alias command, looking up the same full name finds
\* the alias just defined, names longer than 31 characters included; and a
\* name that differs from a defined name only after the 31st character is
\* not taken for it.
C20_AliasNameRoundTrip ==
    LET c == sysgen_common
    IN  /\ (/\ hist # <<>>
            /\ hist[Len(hist)].argv[1] = T_alias
            /\ hist[Len(hist)].ret = 0)
           => LET a == hist[Len(hist)].argv
                  f == sysgen_aliasFind(c, a[2])
              IN  /\ f = 1
                  /\ c.aliases[f].size = GivenSize(a)
                  /\ c.aliases[f].addr = c.pkernel + GivenAddr(a)
        /\ sysgen_aliasFind(c, LongNameHead) # 0
           => \E i \in 1..Len(hist) :
                 /\ hist[i].argv[1] = T_alias /\ hist[i].ret = 0
                 /\ hist[i].argv[2] = LongNameHead

====
